---- MODULE Spec2Model ----
(***************************************************************************)
(* The two enrichment stages of onchain-codework:                          *)
(*   fetch stage        src/tools/get_code.js  (Etherscan source lookup)   *)
(*   classify stage     src/unnamed/part_000   (OpenAI artistic score)     *)
(* Each stage reads an input CSV, skips the addresses found in its output  *)
(* CSV, throttles its external calls and appends rows to the output CSV.   *)
(* A run may be killed between any two steps and started again.            *)
(*                                                                         *)
(* Text (code, replies, reasons) is a sequence of one-character strings.   *)
(* Time is in milliseconds.  The program only compares differences of      *)
(* Date.now() readings with 1000, so the model keeps, for every reading,   *)
(* the time that passed since it was taken, saturated at Horizon.          *)
(***************************************************************************)
EXTENDS Integers, Sequences, FiniteSets, TLC

VARIABLES
    stage,                 \* "fetch" or "classify": the program that is run
    records,               \* the rows of INPUT_CSV
    down,                  \* addresses the service answers only with failures
    service,               \* the answers the external service may give
    outputCsv,             \* OUTPUT_CSV: whether it exists, and its lines
    pc,                    \* "stopped", "loop", "call" or "done"
    i,                     \* position of the for loop in records
    processedAddresses,
    processedCodes,
    writerAppend,          \* the append flag of the csv writer
    callCount,
    sinceStartTime,        \* Date.now() - startTime
    sinceLastRequestTime,  \* Date.now() - lastRequestTime
    sent,                  \* ages of the calls dispatched less than 1000 ms ago
    sinceCompleted,        \* time since the last call of this run returned
    gap,                   \* sinceCompleted as it was at the last dispatch
    lastFault,             \* the last fault the fetch adapter logged
    answer,                \* what the service answered last, "" while it is asked
    log,                   \* what this run did with each record it handled
    snapshot,              \* the lines of OUTPUT_CSV at the last kill, and the
                           \* runs completed since
    finished               \* the output keys at the end of the first two full runs

vars == <<stage, records, down, service, outputCsv, pc, i, processedAddresses,
          processedCodes, writerAppend, callCount, sinceStartTime,
          sinceLastRequestTime, sent, sinceCompleted, gap, lastFault, answer, log,
          snapshot, finished>>

(***************************************************************************)
(* Bounds of the model                                                     *)
(***************************************************************************)
MaxRecords == 3
MaxBurstRecords == 6
MaxFairRecords == 2
MaxProbeRecords == 2
MaxLedgerRecords == 2
MaxHeaderRecords == 2
\* no run is started over a file of more lines than this
MaxLines == 6

(***************************************************************************)
(* Program constants                                                       *)
(***************************************************************************)
MIN_CODE_LENGTH == 20
FETCH_REQUESTS_PER_SECOND == 3
CLASSIFY_REQUESTS_PER_SECOND == 1
MsPerSecond == 1000
HttpBackoffMs == 3000
NetworkBackoffMs == 10000
MinScore == 1
MaxScore == 3

REQUESTS_PER_SECOND(s) ==
    IF s = "fetch" THEN FETCH_REQUESTS_PER_SECOND ELSE CLASSIFY_REQUESTS_PER_SECOND

intervalMs == MsPerSecond \div CLASSIFY_REQUESTS_PER_SECOND

Horizon == MsPerSecond + 1
NoCall == 0 - 1

Min(a, b) == IF a < b THEN a ELSE b

(***************************************************************************)
(* Text                                                                    *)
(***************************************************************************)
LF == "LF"
CR == "CR"
BS == "BS"
SP == " "
Empty == <<>>

Rep(c, n) == [j \in 1..n |-> c]

RECURSIVE EscapeNewlines(_)
EscapeNewlines(s) ==
    IF s = <<>> THEN <<>>
    ELSE IF Len(s) >= 2 /\ s[1] = CR /\ s[2] = LF
         THEN <<BS, "n">> \o EscapeNewlines(SubSeq(s, 3, Len(s)))
    ELSE IF s[1] = LF
         THEN <<BS, "n">> \o EscapeNewlines(Tail(s))
    ELSE <<s[1]>> \o EscapeNewlines(Tail(s))

IsSpace(c) == c \in {SP, LF, CR}

RECURSIVE TrimStart(_)
TrimStart(s) ==
    IF s # <<>> /\ IsSpace(s[1]) THEN TrimStart(Tail(s)) ELSE s

RECURSIVE TrimEnd(_)
TrimEnd(s) ==
    IF s # <<>> /\ IsSpace(s[Len(s)]) THEN TrimEnd(SubSeq(s, 1, Len(s) - 1)) ELSE s

TrimEndOnly(s) == TrimEnd(s)

Trim(s) == TrimEnd(TrimStart(s))


IndexOf(s, c) ==
    IF \E k \in 1..Len(s) : s[k] = c
    THEN CHOOSE k \in 1..Len(s) : s[k] = c /\ \A m \in 1..(k - 1) : s[m] # c
    ELSE 0

RECURSIVE Split(_, _)
Split(s, sep) ==
    LET k == IndexOf(s, sep)
    IN  IF k = 0 THEN <<s>>
        ELSE <<SubSeq(s, 1, k - 1)>> \o Split(SubSeq(s, k + 1, Len(s)), sep)

DigitChars == <<"0", "1", "2", "3", "4", "5", "6", "7", "8", "9">>
IsDigit(c) == \E k \in 1..Len(DigitChars) : DigitChars[k] = c
DigitValue(c) == (CHOOSE k \in 1..Len(DigitChars) : DigitChars[k] = c) - 1

RECURSIVE DigitsPrefix(_)
DigitsPrefix(s) ==
    IF s # <<>> /\ IsDigit(s[1]) THEN <<s[1]>> \o DigitsPrefix(Tail(s)) ELSE <<>>

RECURSIVE DigitsValue(_)
DigitsValue(ds) ==
    IF ds = <<>> THEN 0
    ELSE 10 * DigitsValue(SubSeq(ds, 1, Len(ds) - 1)) + DigitValue(ds[Len(ds)])

\* parseInt(text, 10): leading white space and one sign are skipped, the
\* longest run of digits is read; no digit gives NaN, here the empty set.
ParseInt(s) ==
    LET t == TrimStart(s)
        neg == t # <<>> /\ t[1] = "-"
        u == IF t # <<>> /\ t[1] \in {"-", "+"} THEN Tail(t) ELSE t
        ds == DigitsPrefix(u)
    IN  IF ds = <<>> THEN {}
        ELSE {IF neg THEN 0 - DigitsValue(ds) ELSE DigitsValue(ds)}

ScoreText(n) == <<DigitChars[n + 1]>>

(***************************************************************************)
(* The classification adapter                                              *)
(***************************************************************************)
NULL == 0

ReplyOk == <<"2", SP, "|", SP, "o", "k">>
ReplyNoPipe == <<"n", "o">>
ReplyOutOfRange == <<"4", "|", "x">>
Replies == {ReplyOk, ReplyNoPipe, ReplyOutOfRange}

ClassifyResponses ==
    {[kind |-> "error", content |-> Empty]}
        \cup {[kind |-> "reply", content |-> r] : r \in Replies}

ClassifyFailures == {r \in ClassifyResponses : r.kind = "error"}

getArtisticScoreAndReason(resp) ==
    IF resp.kind = "error" THEN [score |-> NULL, reason |-> Empty]
    ELSE LET content == Trim(resp.content)
             split == Split(content, "|")
             parts == [k \in 1..Len(split) |-> Trim(split[k])]
         IN  IF Len(parts) # 2 THEN [score |-> NULL, reason |-> Empty]
             ELSE LET score == ParseInt(parts[1])
                  IN  IF score = {} \/ (\E n \in score : n < MinScore \/ n > MaxScore)
                      THEN [score |-> NULL, reason |-> Empty]
                      ELSE [score |-> CHOOSE n \in score : TRUE, reason |-> parts[2]]

(***************************************************************************)
(* The source-fetch adapter: one pass of the while (true) loop             *)
(***************************************************************************)
SourcePlaceholder == <<"0", "x">>
SourceText == <<SP, "c", CR, LF, "d", SP>>
FetchSources == {Empty, SourcePlaceholder, SourceText}

FetchResponses ==
    {[kind |-> "network_error", message |-> "", isArray |-> FALSE, result |-> <<>>],
     [kind |-> "http_error", message |-> "", isArray |-> FALSE, result |-> <<>>],
     [kind |-> "json", message |-> "NOTOK", isArray |-> FALSE, result |-> <<>>],
     [kind |-> "json", message |-> "OK", isArray |-> FALSE, result |-> <<>>],
     [kind |-> "json", message |-> "OK", isArray |-> TRUE, result |-> <<>>]}
        \cup {[kind |-> "json", message |-> "OK", isArray |-> TRUE, result |-> <<src>>] :
                 src \in FetchSources}

FetchFailures ==
    {r \in FetchResponses : r.kind # "json" \/ r.message = "NOTOK"}

\* retry: the loop goes round again after backoff ms; otherwise the value
\* returned, null being the empty text (the driver only tests truthiness).
fetchContractSourceRetryEmpty(resp) ==
    IF resp.kind = "network_error"
    THEN [retry |-> TRUE, backoff |-> NetworkBackoffMs, sourceCode |-> Empty]
    ELSE [retry |-> TRUE, backoff |-> HttpBackoffMs, sourceCode |-> Empty]

fetchContractSource(resp) ==
    IF resp.kind = "network_error"
    THEN [retry |-> TRUE, backoff |-> NetworkBackoffMs, sourceCode |-> Empty]
    ELSE IF resp.kind = "http_error"
    THEN [retry |-> TRUE, backoff |-> HttpBackoffMs, sourceCode |-> Empty]
    ELSE IF resp.message = "NOTOK"
    THEN [retry |-> TRUE, backoff |-> HttpBackoffMs, sourceCode |-> Empty]
    ELSE IF ~resp.isArray \/ Len(resp.result) = 0
    THEN [retry |-> FALSE, backoff |-> 0, sourceCode |-> Empty]
    ELSE LET sourceCode == Trim(resp.result[1])
         IN  [retry |-> FALSE, backoff |-> 0,
              sourceCode |-> IF sourceCode # Empty /\ sourceCode # SourcePlaceholder
                             THEN sourceCode ELSE Empty]

(***************************************************************************)
(* Input and output files                                                  *)
(***************************************************************************)
Keys == {"k1", "k2"}
Undefined == "undefined"

CodeShort == Rep("a", MIN_CODE_LENGTH)
CodeLong == Rep("a", MIN_CODE_LENGTH + 1)
CodeLines == Rep("b", MIN_CODE_LENGTH) \o <<CR, LF, "c", LF>>
Codes == {CodeShort, CodeLong, CodeLines}

InputRows(s) ==
    IF s = "fetch" THEN [address : Keys, code : {Empty}]
    ELSE [address : Keys, code : Codes]

SeqsUpTo(S, n) == UNION {[1..m -> S] : m \in 0..n}

Header ==
    [kind |-> "header", address |-> "address", code |-> Empty,
     artistic_score |-> Empty, artistic_reason |-> Empty,
     duplicate_of_address |-> ""]

Row(address, code, score, reason, dup) ==
    [kind |-> "row", address |-> address, code |-> code,
     artistic_score |-> score, artistic_reason |-> reason,
     duplicate_of_address |-> dup]

NoFile == [exists |-> FALSE, lines |-> <<>>]

\* csv-parser takes the first line for the column names; a row has an
\* address only when a column is named address.
getProcessedAddresses(file) ==
    IF ~file.exists \/ Len(file.lines) = 0 THEN {}
    ELSE {IF file.lines[1].kind = "header" THEN file.lines[k].address ELSE Undefined :
             k \in 2..Len(file.lines)}

\* csv-writer: a field holding a comma, a quote, a line feed or a carriage
\* return goes between quotes with its quotes doubled; the fields are joined
\* with commas.  A key and a tag are one token each.
QuoteChar == "\""
NeedsQuotes(t) == \E k \in 1..Len(t) : t[k] \in {",", QuoteChar, LF, CR}

RECURSIVE DoubleQuotes(_)
DoubleQuotes(t) ==
    IF t = <<>> THEN <<>>
    ELSE (IF t[1] = QuoteChar THEN <<QuoteChar, QuoteChar>> ELSE <<t[1]>>)
             \o DoubleQuotes(Tail(t))

Field(t) == IF NeedsQuotes(t) THEN <<QuoteChar>> \o DoubleQuotes(t) \o <<QuoteChar>> ELSE t

Token(a) == IF a = "" THEN <<>> ELSE <<a>>

\* the eight columns of a record, a comma between two of them
Join(a, b, c, d, e, f, g, h) ==
    a \o <<",">> \o b \o <<",">> \o c \o <<",">> \o d \o <<",">> \o e \o <<",">> \o f
      \o <<",">> \o g \o <<",">> \o h

\* the columns block_number, is_erc20 and is_erc721 are copied from the input
BlockNumber == <<"7">>
Flag == <<"False">>

LineText(line) ==
    IF line.kind = "header"
    THEN Join(Token("block_number"), Token("address"), Token("is_erc20"),
              Token("is_erc721"), Token("code"), Token("artistic_score"),
              Token("artistic_reason"), Token("duplicate_of_address"))
    ELSE Join(BlockNumber, Token(line.address), Flag, Flag, Field(line.code),
              Field(line.artistic_score), Field(line.artistic_reason),
              Token(line.duplicate_of_address))

\* readFileSync(...).split("\n"): every record ends with a line feed, so the
\* lines of the file are the lines of its records, one after the other, and
\* an empty last line
RECURSIVE SplitLinesFrom(_, _)
SplitLinesFrom(lines, k) ==
    IF k > Len(lines) THEN <<Empty>>
    ELSE Split(LineText(lines[k]), LF) \o SplitLinesFrom(lines, k + 1)

SplitLines(lines) == SplitLinesFrom(lines, 1)

\* line.split(",")[1]: the text between the first comma and the second, or
\* the end of the line; no text at all when the line has no comma
SecondColumn(line) ==
    LET first == IndexOf(line, ",")
        rest == SubSeq(line, first + 1, Len(line))
        second == IndexOf(rest, ",")
    IN  IF first = 0 THEN <<>>
        ELSE IF second = 0 THEN rest
        ELSE SubSeq(rest, 1, second - 1)

\* a text that is one token is that key; any other text is a key of no record
Unparsed == "?"
KeyOf(t) == IF Len(t) = 1 THEN t[1] ELSE Unparsed

\* lines[0] is skipped whatever it holds; cols[1] of the others, trimmed and
\* split at the commas, is kept when there is one and it is not empty (an
\* empty line has no second column).
LoadProcessedAddresses(file) ==
    IF ~file.exists THEN {}
    ELSE UNION {{KeyOf(col) : col \in {SecondColumn(Trim(lines[m])) : m \in 2..Len(lines)}
                                          \ {<<>>}} :
                   lines \in {SplitLines(file.lines)}}

\* fs.writeFileSync of the header line when the file does not exist
createCsvWriter(file) ==
    IF ~file.exists THEN [exists |-> TRUE, lines |-> <<Header>>] ELSE file

\* csv-writer: a writer not in append mode writes header and row with flag
\* 'w' on its first write and appends from then on.
writeRecordsDeferred(file, append, row) == file

writeRecords(file, append, row) ==
    IF append THEN [exists |-> TRUE, lines |-> Append(file.lines, row)]
    ELSE [exists |-> TRUE, lines |-> <<Header, row>>]


(***************************************************************************)
(* Clocks                                                                  *)
(***************************************************************************)
Latencies == {0, 200, 1100}

After(t, d) == Min(t + d, Horizon)

AfterCall(t, d) == IF t = NoCall THEN NoCall ELSE After(t, d)

\* the calls that left less than a second ago, d ms later
SentAfter(s, d) ==
    SelectSeq([k \in 1..Len(s) |-> s[k] + d], LAMBDA a : a < MsPerSecond)

\* lines 117-125 of get_code.js: the wait before the call, and the counter
\* and the window start after it
FetchAcquire(count, elapsed) ==
    IF count + 1 > FETCH_REQUESTS_PER_SECOND
    THEN [wait |-> IF elapsed < MsPerSecond THEN MsPerSecond - elapsed ELSE 0,
          callCount |-> 1, restart |-> TRUE]
    ELSE [wait |-> 0, callCount |-> count + 1, restart |-> FALSE]

\* lines 197-201 of the classification stage: the wait before the call
ClassifyAcquire(elapsed) ==
    IF elapsed < intervalMs THEN intervalMs - elapsed ELSE 0

LastRequestTimeAtDispatch(lat) == Min(lat, Horizon)

\* line 205: lastRequestTime is read when the call has returned, lat ms
\* after it was dispatched
LastRequestTimeAge(lat) == 0

(***************************************************************************)
(* The state machine                                                       *)
(***************************************************************************)
NoCodes == [c \in {} |-> ""]

Stopped ==
    /\ pc' = "stopped"
    /\ i' = 1
    /\ processedAddresses' = {}
    /\ processedCodes' = NoCodes
    /\ writerAppend' = FALSE
    /\ callCount' = 0
    /\ sinceStartTime' = 0
    /\ sinceLastRequestTime' = Horizon
    /\ sent' = <<>>
    /\ sinceCompleted' = NoCall
    /\ gap' = NoCall
    /\ lastFault' = ""
    /\ answer' = ""
    /\ log' = <<>>

\* an exception, a status that is not a success and a NOTOK payload are
\* failures of the service; any other answer is one it gave
Answered(resp) ==
    IF \/ resp.kind \in {"network_error", "http_error", "error"}
       \/ resp.kind = "json" /\ resp.message = "NOTOK"
    THEN "failure" ELSE "ok"

\* the service of a stage left free to give any of the modelled answers
AnyAnswer(s) == IF s = "fetch" THEN FetchResponses ELSE ClassifyResponses

InitFrom(stages, inputs, downs, services, files) ==
    /\ stage \in stages
    /\ records \in inputs[stage]
    /\ down \in downs
    /\ service \in services[stage]
    /\ outputCsv \in files
    /\ pc = "stopped"
    /\ i = 1
    /\ processedAddresses = {}
    /\ processedCodes = NoCodes
    /\ writerAppend = FALSE
    /\ callCount = 0
    /\ sinceStartTime = 0
    /\ sinceLastRequestTime = Horizon
    /\ sent = <<>>
    /\ sinceCompleted = NoCall
    /\ gap = NoCall
    /\ lastFault = ""
    /\ answer = ""
    /\ log = <<>>
    /\ snapshot = [taken |-> FALSE, lines |-> <<>>, finishes |-> 0]
    /\ finished = <<>>

AnyService == [s \in {"fetch", "classify"} |-> {AnyAnswer(s)}]

\* OUTPUT_CSV does not exist, the service may give any answer
InitWith(stages, inputs, downs) == InitFrom(stages, inputs, downs, AnyService, {NoFile})

Inputs(maxLen) == [s \in {"fetch", "classify"} |-> SeqsUpTo(InputRows(s), maxLen)]

Init == InitWith({"fetch", "classify"}, Inputs(MaxRecords), {{}})

address == records[i].address
code == records[i].code

Running == pc \in {"loop", "call"}
AtRecord == pc = "loop" /\ i <= Len(records)

Logged(step, row) == Append(log, [idx |-> i, step |-> step, row |-> row])

\* main() up to the first pass of the for loop
StartRun(ledger, file, append) ==
    /\ pc \in {"stopped", "done"}
    /\ Len(outputCsv.lines) <= MaxLines
    /\ processedAddresses' = ledger
    /\ outputCsv' = file
    /\ writerAppend' = append
    /\ processedCodes' = NoCodes
    /\ callCount' = 0
    /\ sinceStartTime' = 0
    /\ sinceLastRequestTime' = Horizon
    /\ sent' = <<>>
    /\ sinceCompleted' = NoCall
    /\ gap' = NoCall
    /\ lastFault' = ""
    /\ answer' = ""
    /\ log' = <<>>
    /\ i' = 1
    /\ pc' = "loop"
    /\ UNCHANGED <<stage, records, down, service, snapshot, finished>>

FetchStart ==
    /\ stage = "fetch"
    /\ StartRun(getProcessedAddresses(outputCsv), createCsvWriter(outputCsv), TRUE)

ClassifyStart ==
    /\ stage = "classify"
    /\ StartRun(LoadProcessedAddresses(outputCsv), outputCsv, outputCsv.exists)

\* continue: the next record, nothing else touched
FetchSkipProcessed ==
    /\ stage = "fetch" /\ AtRecord
    /\ address \in processedAddresses
    /\ i' = i + 1
    /\ log' = Logged("skip_processed", 0)
    /\ UNCHANGED <<stage, records, down, service, outputCsv, pc, processedAddresses,
                   processedCodes, writerAppend, callCount, sinceStartTime,
                   sinceLastRequestTime, sent, sinceCompleted, gap, lastFault, answer,
                   snapshot, finished>>

ClassifySkipProcessed ==
    /\ stage = "classify" /\ AtRecord
    /\ address \in processedAddresses
    /\ i' = i + 1
    /\ log' = Logged("skip_processed", 0)
    /\ UNCHANGED <<stage, records, down, service, outputCsv, pc, processedAddresses,
                   processedCodes, writerAppend, callCount, sinceStartTime,
                   sinceLastRequestTime, sent, sinceCompleted, gap, lastFault, answer,
                   snapshot, finished>>

IsTooShortStrict(c) == Len(c) < MIN_CODE_LENGTH

IsTooShort(c) == Len(c) <= MIN_CODE_LENGTH

SkipRowStamped(step, dup) ==
    /\ outputCsv' = writeRecords(outputCsv, writerAppend, Row(address, Empty, Empty, Empty, dup))
    /\ writerAppend' = TRUE
    /\ log' = Logged(step, Len(outputCsv'.lines))
    /\ i' = i + 1
    /\ sinceLastRequestTime' = 0
    /\ UNCHANGED <<stage, records, down, service, pc, processedAddresses, processedCodes,
                   callCount, sinceStartTime, sent,
                   sinceCompleted, gap, lastFault, answer, snapshot, finished>>

\* a placeholder row is written, the in-memory sets are left alone
SkipRow(step, dup) ==
    /\ outputCsv' = writeRecords(outputCsv, writerAppend, Row(address, Empty, Empty, Empty, dup))
    /\ writerAppend' = TRUE
    /\ log' = Logged(step, Len(outputCsv'.lines))
    /\ i' = i + 1
    /\ UNCHANGED <<stage, records, down, service, pc, processedAddresses, processedCodes,
                   callCount, sinceStartTime, sinceLastRequestTime, sent,
                   sinceCompleted, gap, lastFault, answer, snapshot, finished>>

ClassifySkipShort ==
    /\ stage = "classify" /\ AtRecord
    /\ address \notin processedAddresses
    /\ IsTooShort(code)
    /\ SkipRow("too_short", "TOO_SHORT")

ClassifySkipDuplicate ==
    /\ stage = "classify" /\ AtRecord
    /\ address \notin processedAddresses
    /\ ~IsTooShort(code)
    /\ code \in DOMAIN processedCodes
    /\ SkipRow("duplicate", processedCodes[code])

\* the limiter wait, then the request leaves
Dispatch(wait) ==
    /\ sent' = Append(SentAfter(sent, wait), 0)
    /\ sinceCompleted' = AfterCall(sinceCompleted, wait)
    /\ gap' = AfterCall(sinceCompleted, wait)
    /\ answer' = ""
    /\ pc' = "call"

ClassifyDispatch ==
    /\ stage = "classify" /\ AtRecord
    /\ address \notin processedAddresses
    /\ ~IsTooShort(code)
    /\ code \notin DOMAIN processedCodes
    /\ LET wait == ClassifyAcquire(sinceLastRequestTime)
       IN  /\ Dispatch(wait)
           /\ sinceLastRequestTime' = After(sinceLastRequestTime, wait)
           /\ sinceStartTime' = After(sinceStartTime, wait)
    /\ UNCHANGED <<stage, records, down, service, outputCsv, i, processedAddresses,
                   processedCodes, writerAppend, callCount, lastFault, log,
                   snapshot, finished>>

ClassifyAnswers == IF address \in down THEN ClassifyFailures ELSE service

ForgetCode(codes, c, a) == codes

\* processedCodes[code] = address
RememberCode(codes, c, a) ==
    [x \in DOMAIN codes \cup {c} |-> IF x = c THEN a ELSE codes[x]]

\* the reply (or the exception) arrives; the row is written whatever it is
ClassifyComplete ==
    /\ stage = "classify" /\ pc = "call"
    /\ \E resp \in ClassifyAnswers, lat \in Latencies :
        LET r == getArtisticScoreAndReason(resp)
            row == Row(address, EscapeNewlines(code),
                       IF r.score = NULL THEN Empty ELSE ScoreText(r.score),
                       r.reason, "")
        IN  /\ sinceLastRequestTime' = LastRequestTimeAge(lat)
            /\ sinceStartTime' = After(sinceStartTime, lat)
            /\ sent' = SentAfter(sent, lat)
            /\ sinceCompleted' = 0
            /\ outputCsv' = writeRecords(outputCsv, writerAppend, row)
            /\ writerAppend' = TRUE
            /\ log' = Logged(IF resp.kind = "error" THEN "fault" ELSE "enriched",
                             Len(outputCsv'.lines))
            /\ answer' = Answered(resp)
    /\ processedAddresses' = processedAddresses \cup {address}
    /\ processedCodes' = RememberCode(processedCodes, code, address)
    /\ i' = i + 1
    /\ pc' = "loop"
    /\ UNCHANGED <<stage, records, down, service, callCount, gap, lastFault, snapshot, finished>>

FetchDispatch ==
    /\ stage = "fetch" /\ AtRecord
    /\ address \notin processedAddresses
    /\ LET a == FetchAcquire(callCount, sinceStartTime)
       IN  /\ Dispatch(a.wait)
           /\ callCount' = a.callCount
           /\ sinceStartTime' = IF a.restart THEN 0 ELSE sinceStartTime
           /\ sinceLastRequestTime' = After(sinceLastRequestTime, a.wait)
    /\ UNCHANGED <<stage, records, down, service, outputCsv, i, processedAddresses,
                   processedCodes, writerAppend, lastFault, log, snapshot, finished>>

FetchAnswers == IF address \in down THEN FetchFailures ELSE service

\* a pass of the while loop that ends in continue or in the catch block:
\* the backoff, then the same request again
FetchRetry ==
    /\ stage = "fetch" /\ pc = "call"
    /\ \E resp \in FetchAnswers, lat \in Latencies :
        LET r == fetchContractSource(resp)
        IN  /\ r.retry
            /\ lastFault' = IF resp.kind = "json" THEN "NOTOK" ELSE resp.kind
            /\ answer' = Answered(resp)
            /\ sinceStartTime' = After(sinceStartTime, lat + r.backoff)
            /\ sinceLastRequestTime' = After(sinceLastRequestTime, lat + r.backoff)
            /\ sent' = Append(SentAfter(sent, lat + r.backoff), 0)
            /\ sinceCompleted' = After(0, r.backoff)
            /\ gap' = After(0, r.backoff)
    /\ UNCHANGED <<stage, records, down, service, outputCsv, pc, i, processedAddresses,
                   processedCodes, writerAppend, callCount, log, snapshot, finished>>

\* a pass of the while loop that returns: a row only for a source
FetchComplete ==
    /\ stage = "fetch" /\ pc = "call"
    /\ \E resp \in FetchAnswers, lat \in Latencies :
        LET r == fetchContractSource(resp)
        IN  /\ ~r.retry
            /\ answer' = Answered(resp)
            /\ sinceStartTime' = After(sinceStartTime, lat)
            /\ sinceLastRequestTime' = After(sinceLastRequestTime, lat)
            /\ sent' = SentAfter(sent, lat)
            /\ sinceCompleted' = 0
            /\ IF r.sourceCode # Empty
               THEN /\ outputCsv' = writeRecords(outputCsv, writerAppend,
                                       Row(address, EscapeNewlines(r.sourceCode),
                                           Empty, Empty, ""))
                    /\ processedAddresses' = processedAddresses \cup {address}
                    /\ log' = Logged("saved", Len(outputCsv'.lines))
               ELSE /\ UNCHANGED <<outputCsv, processedAddresses>>
                    /\ log' = Logged("no_contract", 0)
    /\ i' = i + 1
    /\ pc' = "loop"
    /\ UNCHANGED <<stage, records, down, service, processedCodes, writerAppend, callCount,
                   gap, lastFault, snapshot, finished>>

OutputKeys(file) == {file.lines[k].address : k \in {m \in 1..Len(file.lines) : file.lines[m].kind = "row"}}

\* the for loop is over: "All done" / "completed"
Finish ==
    /\ pc = "loop" /\ i > Len(records)
    /\ pc' = "done"
    /\ finished' = IF Len(finished) < 2 THEN Append(finished, OutputKeys(outputCsv))
                   ELSE finished
    /\ snapshot' = [snapshot EXCEPT !.finishes = Min(@ + 1, 2)]
    /\ UNCHANGED <<stage, records, down, service, outputCsv, i, processedAddresses,
                   processedCodes, writerAppend, callCount, sinceStartTime,
                   sinceLastRequestTime, sent, sinceCompleted, gap, lastFault, answer,
                   log>>

\* the process is terminated: the file stays, the memory is gone
Kill ==
    /\ Running
    /\ Stopped
    /\ snapshot' = [taken |-> TRUE, lines |-> outputCsv.lines, finishes |-> 0]
    /\ UNCHANGED <<stage, records, down, service, outputCsv, finished>>

NextFetch ==
    \/ FetchStart
    \/ FetchSkipProcessed
    \/ FetchDispatch
    \/ FetchRetry
    \/ FetchComplete
    \/ Finish

Next ==
    \/ FetchStart
    \/ FetchSkipProcessed
    \/ FetchDispatch
    \/ FetchRetry
    \/ FetchComplete
    \/ ClassifyStart
    \/ ClassifySkipProcessed
    \/ ClassifySkipShort
    \/ ClassifySkipDuplicate
    \/ ClassifyDispatch
    \/ ClassifyComplete
    \/ Finish
    \/ Kill

Spec == Init /\ [][Next]_vars

\* the fetch stage alone, on inputs long enough for two counting periods
\* one address listed n times: it is fetched again for as long as the
\* service answers that it has no source
BurstInputs ==
    [s \in {"fetch"} |->
        {[j \in 1..n |-> [address |-> "k1", code |-> Empty]] : n \in 0..MaxBurstRecords}]

InitBurst == InitWith({"fetch"}, BurstInputs, {{}})

SpecBurst == InitBurst /\ [][NextFetch]_vars

\* runs that nobody kills, with a service that may be down for some addresses;
\* the event loop always runs a continuation that is ready
NextRun ==
    \/ FetchStart
    \/ FetchSkipProcessed
    \/ FetchDispatch
    \/ FetchRetry
    \/ FetchComplete
    \/ ClassifyStart
    \/ ClassifySkipProcessed
    \/ ClassifySkipShort
    \/ ClassifySkipDuplicate
    \/ ClassifyDispatch
    \/ ClassifyComplete
    \/ Finish

InitFair == InitWith({"fetch", "classify"}, Inputs(MaxFairRecords), SUBSET Keys)

FairSpec == InitFair /\ [][NextRun]_vars /\ WF_vars(NextRun)

\* the adapters on one answer at a time: the service gives the same answer
\* to every request of the behaviour
Reply2abc == <<"2", "a", "b", "c", "|", "x">>
Reply2p5 == <<"2", ".", "5", "|", "x">>
ReplyThreeFields == <<"1", "|", "a", "|", "b">>
ReplyLow == <<"1", "|", "a">>
ReplyHigh == <<SP, "3", SP, "|", "b", LF>>
ReplyZero == <<"0", "|", "x">>
ReplyNoScore == <<"|", "x">>
ReasonPlayful ==
    <<"p", "l", "a", "y", "f", "u", "l", SP, "n", "a", "m", "i", "n", "g", SP,
      "s", "c", "h", "e", "m", "e">>
ReplyPlayful == <<"2", SP, "|", SP>> \o ReasonPlayful
ProbeReplies ==
    Replies \cup {Reply2abc, Reply2p5, ReplyThreeFields, ReplyLow, ReplyHigh,
                  ReplyZero, ReplyNoScore, ReplyPlayful}

RateLimitText == <<"Max rate limit reached">>
InvalidAddressText == <<"Invalid Address format">>
NotOk(text) == [kind |-> "json", message |-> "NOTOK", isArray |-> FALSE, result |-> text]
SourcePadded == <<SP, "0", "x", LF>>
ProbeResponses ==
    FetchResponses
        \cup {NotOk(RateLimitText), NotOk(InvalidAddressText),
              [kind |-> "json", message |-> "OK", isArray |-> TRUE, result |-> <<SourcePadded>>],
              [kind |-> "json", message |-> "OK", isArray |-> TRUE,
               result |-> <<SourceText, SourcePlaceholder>>]}

ProbeServices ==
    [s \in {"fetch", "classify"} |->
        IF s = "fetch" THEN {{r} : r \in ProbeResponses}
        ELSE {{r} : r \in {[kind |-> "error", content |-> Empty]}
                          \cup {[kind |-> "reply", content |-> t] : t \in ProbeReplies}}]

Code19 == Rep("a", MIN_CODE_LENGTH - 1)
ProbeInputs ==
    [s \in {"fetch", "classify"} |->
        SeqsUpTo(InputRows(s) \cup (IF s = "classify" THEN [address : Keys, code : {Code19}]
                                                      ELSE {}),
                 MaxProbeRecords)]

InitProbe ==
    InitFrom({"fetch", "classify"}, ProbeInputs, {{}}, ProbeServices, {NoFile})

SpecProbe == InitProbe /\ [][NextRun]_vars

\* runs, kills and restarts over an input whose order drifts between the
\* runs; the reason of the second reply runs over two lines, the second
\* of which holds the text of the key k2 between commas
ReplyTwoLines == <<"2", "|", "x", LF, "y", ",", "k2", ",", "z">>
LedgerServices ==
    [s \in {"fetch", "classify"} |->
        IF s = "fetch" THEN {AnyAnswer(s)}
        ELSE {{[kind |-> "reply", content |-> t]} : t \in {ReplyOk, ReplyTwoLines}}]

InitLedger ==
    InitFrom({"fetch", "classify"}, Inputs(MaxLedgerRecords), {{}}, LedgerServices, {NoFile})

\* between two runs the rows of INPUT_CSV come in another order
Reorder ==
    /\ pc \in {"stopped", "done"}
    /\ \E p \in {q \in [1..Len(records) -> 1..Len(records)] :
                    \A x, y \in 1..Len(records) : q[x] = q[y] => x = y} :
          /\ records' = [k \in 1..Len(records) |-> records[p[k]]]
          /\ records' # records
    /\ Stopped
    /\ UNCHANGED <<stage, down, service, outputCsv, snapshot, finished>>

NextLedger ==
    \/ Next
    \/ Reorder

SpecLedger == InitLedger /\ [][NextLedger]_vars

\* OUTPUT_CSV does not exist, or exists and holds nothing
EmptyFile == [exists |-> TRUE, lines |-> <<>>]

\* one record is enough for the fetch stage, which has no branch on two
HeaderInputs ==
    [s \in {"fetch", "classify"} |->
        SeqsUpTo(InputRows(s), IF s = "fetch" THEN 1 ELSE MaxHeaderRecords)]

InitHeader ==
    InitFrom({"fetch", "classify"}, HeaderInputs, {{}}, AnyService, {NoFile, EmptyFile})

SpecHeader == InitHeader /\ [][Next]_vars


(***************************************************************************)
(* Properties                                                              *)
(***************************************************************************)
RowIndexes(file) == {m \in 1..Len(file.lines) : file.lines[m].kind = "row"}
RowCount(file) == Cardinality(RowIndexes(file))
InputKeys == {records[j].address : j \in 1..Len(records)}

\* C1: no address has more than one row in the output file, in any state
\* reached by complete or killed and restarted runs of either stage.
C1_AtMostOneRowPerKey ==
    \A a, b \in RowIndexes(outputCsv) :
        a # b => outputCsv.lines[a].address # outputCsv.lines[b].address

\* C2: after two complete runs the output keys are those left by the first
\* run, no key has two rows and every input key has a row.
C2_IdempotentResumption ==
    (Len(finished) = 2 /\ ~snapshot.taken) =>
        /\ finished[2] = finished[1]
        /\ C1_AtMostOneRowPerKey
        /\ InputKeys \subseteq finished[2]

IsPrefix(s, t) == Len(s) <= Len(t) /\ SubSeq(t, 1, Len(s)) = s
SnapshotKeys == {snapshot.lines[k].address : k \in {m \in 1..Len(snapshot.lines) : snapshot.lines[m].kind = "row"}}
Remaining == {j \in 1..Len(records) : records[j].address \notin SnapshotKeys}

\* C3: at the end of the run restarted after a kill, the rows present at the
\* kill are unchanged, every remaining input record has one new row and no
\* key has two rows.
C3_DurableAcrossKill ==
    (pc = "done" /\ snapshot.taken /\ snapshot.finishes = 1) =>
        /\ IsPrefix(snapshot.lines, outputCsv.lines)
        /\ RowCount(outputCsv) = RowCount([exists |-> TRUE, lines |-> snapshot.lines])
                                     + Cardinality(Remaining)
        /\ C1_AtMostOneRowPerKey

\* C4: when the driver advances past a record, exactly one row was appended
\* if the key was not in the ledger, and none if it was.
C4_OneRowPerHandledRecord ==
    [][(Running /\ i' = i + 1) =>
          IF address \in processedAddresses
          THEN outputCsv' = outputCsv
          ELSE RowCount(outputCsv') = RowCount(outputCsv) + 1]_vars


Handled(k) == log[k].step # "skip_processed"
Processed(k) == log[k].step \in {"enriched", "fault"}
RowOf(k) == outputCsv.lines[log[k].row]

\* C5: every record the classification driver reaches with a key not yet
\* processed and a code of at most MIN_CODE_LENGTH characters gets a row with
\* empty code, score and reason and the tag TOO_SHORT.
C5_SkipShort ==
    stage = "classify" =>
        \A k \in 1..Len(log) :
            (Handled(k) /\ Len(records[log[k].idx].code) <= MIN_CODE_LENGTH) =>
                /\ log[k].row \in RowIndexes(outputCsv)
                /\ RowOf(k) = Row(records[log[k].idx].address, Empty, Empty, Empty, "TOO_SHORT")

C5_Witness ==
    /\ stage = "classify"
    /\ \E k \in 1..Len(log) :
          /\ Handled(k)
          /\ Len(records[log[k].idx].code) = MIN_CODE_LENGTH
          /\ RowOf(k).duplicate_of_address = "TOO_SHORT"

\* C6: of two records of one run with identical code and different keys,
\* the first of which went through the classification of this run (lines
\* 204-221) and the second of which was reached with a key not yet processed,
\* the second gets a row with duplicate_of_address the first key and empty code.
C6_DuplicateDetection ==
    stage = "classify" =>
        \A a, b \in 1..Len(log) :
            (/\ a < b
             /\ Processed(a) /\ Handled(b)
             /\ records[log[a].idx].code = records[log[b].idx].code
             /\ records[log[a].idx].address # records[log[b].idx].address) =>
                /\ log[b].row \in RowIndexes(outputCsv)
                /\ RowOf(b).address = records[log[b].idx].address
                /\ RowOf(b).duplicate_of_address = records[log[a].idx].address
                /\ RowOf(b).code = Empty

C6_Witness ==
    /\ stage = "classify"
    /\ \E a, b \in 1..Len(log) :
          /\ a < b
          /\ Processed(a) /\ Handled(b)
          /\ records[log[a].idx].code = records[log[b].idx].code
          /\ records[log[a].idx].address # records[log[b].idx].address
          /\ RowOf(b).duplicate_of_address = records[log[a].idx].address

\* C7: in every window of one second (the calls dispatched less than 1000 ms
\* before any instant) at most R + 1 external calls are dispatched, R the
\* configured rate of the stage.
C7_RateBound == Len(sent) <= REQUESTS_PER_SECOND(stage) + 1

MinSpacing(s) == MsPerSecond \div REQUESTS_PER_SECOND(s)

\* C8 as stated: in both stages every call after the first of a run leaves
\* at least floor(1000/rate) ms after the previous call returned.
C8_SpacingBothStages == gap = NoCall \/ gap >= MinSpacing(stage)

\* C8 amended: the minimum spacing holds in the classification stage.
C8_SpacingClassify ==
    stage = "classify" => (gap = NoCall \/ gap >= MinSpacing(stage))

C8_Witness ==
    /\ stage = "classify" /\ pc = "call"
    /\ gap = MinSpacing(stage)
    /\ \E k \in 1..Len(log) : Processed(k)

\* C9: a transient fault of the external call is never recorded: no record
\* is completed with a row because its call failed.
C9_FaultsNeverRecorded ==
    \A k \in 1..Len(log) : log[k].step = "fault" => log[k].row = 0


\* the driver waits for the answer to a request for an address the service
\* is not down for
WaitingOnHealthy == pc = "call" /\ address \notin down

\* C10: whatever addresses the service answers only with failures, a run
\* whose other requests are answered in the end gets past every record and
\* reaches the end of the input.
C10_NeverHalts == ([]<>~WaitingOnHealthy) => <>(pc = "done")


\* the one answer of a service that always gives the same answer
TheAnswer == CHOOSE r \in service : TRUE

IsIntegerText(t) == t # <<>> /\ \A k \in 1..Len(t) : IsDigit(t[k])

Fields(t) == LET f == Split(Trim(t), "|") IN [k \in 1..Len(f) |-> Trim(f[k])]

\* two fields, the first an integer in 1..3
IsScoreAndReason(t) ==
    /\ Len(Fields(t)) = 2
    /\ IsIntegerText(Fields(t)[1])
    /\ DigitsValue(Fields(t)[1]) \in MinScore..MaxScore

\* C11: the row of a classified record carries a score and a reason exactly
\* when the reply, split on |, has two fields the first of which is an
\* integer in 1..3 (the score is that integer, the reason the trimmed second
\* field); for every other reply the row is appended at once with the raw
\* code and an empty score.
C11_ReplyParsing ==
    (stage = "classify" /\ Cardinality(service) = 1) =>
        \A k \in 1..Len(log) :
            log[k].step = "enriched" =>
                /\ RowOf(k).code = EscapeNewlines(records[log[k].idx].code)
                /\ IF IsScoreAndReason(TheAnswer.content)
                   THEN /\ RowOf(k).artistic_score = Fields(TheAnswer.content)[1]
                        /\ RowOf(k).artistic_reason = Fields(TheAnswer.content)[2]
                   ELSE /\ RowOf(k).artistic_score = Empty
                        /\ RowOf(k).artistic_reason = Empty


\* the answers the adapter is to retry: a fault of the network, a status
\* that is not a success, a payload that says the rate limit was reached
IsTransient(r) ==
    \/ r.kind \in {"network_error", "http_error"}
    \/ r.kind = "json" /\ r.message = "NOTOK" /\ r.result = RateLimitText

\* the answers that carry a source
HasSource(r) ==
    /\ r.kind = "json" /\ r.message = "OK" /\ r.isArray /\ Len(r.result) >= 1
    /\ Trim(r.result[1]) \notin {Empty, SourcePlaceholder}

\* C12: the fetch adapter returns the source exactly when the first result
\* has a source that is not empty after trimming and not 0x, returns "no
\* contract" without a retry when it is empty or 0x, and retries only on a
\* throttle payload, a status that is not a success or a fault of the network.
C12_FetchClassification ==
    (stage = "fetch" /\ Cardinality(service) = 1) =>
        /\ lastFault # "" => IsTransient(TheAnswer)
        /\ \A k \in 1..Len(log) :
              /\ log[k].step = "saved" =>
                    /\ HasSource(TheAnswer)
                    /\ RowOf(k).code = EscapeNewlines(Trim(TheAnswer.result[1]))
              /\ log[k].step = "no_contract" =>
                    ~HasSource(TheAnswer) /\ ~IsTransient(TheAnswer)


PlayfulAnswer == [kind |-> "reply", content |-> ReplyPlayful]

\* C13 as stated: with the service answering "2 | playful naming scheme", a
\* record with a code of 19 characters and a key not yet processed gets a row
\* with artistic_score 2 and artistic_reason "playful naming scheme".
C13_Scenario19 ==
    (stage = "classify" /\ service = {PlayfulAnswer}) =>
        \A k \in 1..Len(log) :
            (Handled(k) /\ records[log[k].idx].code = Code19) =>
                /\ RowOf(k).artistic_score = ScoreText(2)
                /\ RowOf(k).artistic_reason = ReasonPlayful

\* C13 amended: with that answer, a record with a code of 19 characters gets
\* the TOO_SHORT row and no request is made for it; a record with a code of
\* 21 characters that goes through the classification gets a row with its
\* code, artistic_score 2 and artistic_reason "playful naming scheme".
C13_Scenario ==
    (stage = "classify" /\ service = {PlayfulAnswer}) =>
        \A k \in 1..Len(log) :
            /\ (Handled(k) /\ records[log[k].idx].code = Code19) =>
                  /\ log[k].step = "too_short"
                  /\ RowOf(k) = Row(records[log[k].idx].address, Empty, Empty, Empty, "TOO_SHORT")
            /\ (Processed(k) /\ records[log[k].idx].code = CodeLong) =>
                  /\ RowOf(k) = Row(records[log[k].idx].address, CodeLong, ScoreText(2),
                                    ReasonPlayful, "")

C13_Witness ==
    /\ stage = "classify" /\ service = {PlayfulAnswer}
    /\ \E a, b \in 1..Len(log) :
          /\ records[log[a].idx].code = Code19 /\ log[a].step = "too_short"
          /\ records[log[b].idx].code = CodeLong /\ log[b].step = "enriched"
          /\ RowOf(b).artistic_reason = ReasonPlayful


\* the rows the run in progress has written, and the keys of the others
WrittenNow == {log[k].row : k \in 1..Len(log)}
PriorKeys == {outputCsv.lines[m].address : m \in RowIndexes(outputCsv) \ WrittenNow}
AddedKeys ==
    {records[log[k].idx].address :
        k \in {n \in 1..Len(log) : log[n].step \in {"saved", "enriched", "fault"}}}
HandledKeys == {records[log[k].idx].address : k \in {n \in 1..Len(log) : Handled(n)}}

\* C14: the ledger a run loads is exactly the set of the keys that have a row
\* in the output it starts over (empty when the file does not exist or holds
\* the header only); the run handles no key of that set, and a run that
\* reaches the end has handled every other key of the input, in whatever
\* order the input rows come.
C14_LedgerLoad ==
    pc \in {"loop", "call", "done"} =>
        /\ processedAddresses = PriorKeys \cup AddedKeys
        /\ HandledKeys \cap PriorKeys = {}
        /\ pc = "done" => InputKeys \ PriorKeys \subseteq HandledKeys


\* C15: started from no file or from an empty file, after any runs and kills
\* of either stage, an output file that is not empty has the header as its
\* first line and nowhere else.
C15_HeaderOnce ==
    (outputCsv.exists /\ outputCsv.lines # <<>>) =>
        /\ outputCsv.lines[1].kind = "header"
        /\ \A m \in 2..Len(outputCsv.lines) : outputCsv.lines[m].kind # "header"


\* C16: at every point of a run, every key that has a row in the output
\* file, placeholder rows of this run included, is in processedAddresses.
C16_LedgerCoversRows ==
    Running => OutputKeys(outputCsv) \subseteq processedAddresses


\* C17: while a run is at record i, the records before i have all been
\* handled, one after the other, and the row of each of them that gets a row
\* is in the output file; the only request in flight is the one of record i.
C17_DurableBeforeNext ==
    pc \in {"loop", "call", "done"} =>
        /\ Len(log) = i - 1
        /\ \A k \in 1..Len(log) :
              /\ log[k].idx = k
              /\ log[k].step \notin {"skip_processed", "no_contract"} =>
                    /\ log[k].row \in RowIndexes(outputCsv)
                    /\ RowOf(k).address = records[k].address
        /\ pc = "call" => i <= Len(records)

C17_Witness ==
    /\ pc = "call" /\ i = 2
    /\ log[1].step \in {"saved", "enriched", "too_short"}
    /\ RowOf(1).address = records[1].address


DistinctKeys == \A a, b \in 1..Len(records) : records[a].address = records[b].address => a = b
PrefixKeys(j) == {records[k].address : k \in 1..j}

\* C18: when the keys of the input are distinct, the ledger a run has just
\* loaded is the set of the keys of a prefix of the input, in both stages,
\* after any earlier runs and kills.
C18_GaplessPrefix ==
    (pc = "loop" /\ i = 1 /\ DistinctKeys) =>
        \E j \in 0..Len(records) : processedAddresses = PrefixKeys(j)


\* no request is waiting, or the last answer to the one that is was not a
\* failure
NotFailing == pc # "call" \/ answer = "ok"

\* C19: if the service never goes on failing for ever (every request gets in
\* the end an answer that is a source or an empty result), every run of
\* either stage reaches the end with every record of the input gone through.
C19_Termination ==
    ([]<>NotFailing) => (Running ~> (pc = "done" /\ Len(log) = Len(records)))

C19_Witness ==
    /\ stage = "fetch" /\ pc = "done"
    /\ Len(log) = Len(records) /\ records # <<>>
    /\ lastFault # "" /\ answer = "ok"


\* a pass of the loop that goes to the next record with no request
SkipStep == pc = "loop" /\ pc' = "loop" /\ i' = i + 1

\* C20: a pass that skips its record (already processed, too short or a
\* duplicate) sends no request and leaves the limiter as it was: the time of
\* the last request, the count of requests and the start of the period; the
\* skip of a processed key leaves the output file as it was too.
C20_SkipsTouchNothing ==
    [][SkipStep =>
          /\ sent' = sent
          /\ sinceLastRequestTime' = sinceLastRequestTime
          /\ callCount' = callCount
          /\ sinceStartTime' = sinceStartTime
          /\ address \in processedAddresses => outputCsv' = outputCsv]_vars

C20_Witness ==
    /\ pc = "loop" /\ Len(log) >= 2
    /\ log[Len(log)].step \in {"skip_processed", "too_short", "duplicate"}
    /\ log[Len(log) - 1].step \in {"saved", "enriched"}
    /\ sent # <<>>

====
